---- MODULE Spec2Model ----
(***************************************************************************)
(* Two terminal arcade games of the repository:                            *)
(*   variant = "simple"  : src/backup.py (integer grid, border spawns)     *)
(*   variant = "richer"  : src/main.py   (wall map, health, ammo, win)     *)
(* Both are single-threaded tick loops.  Each phase of a tick (input,      *)
(* projectile update, enemy update, render, sleep) is one action; pc is    *)
(* the position of the loop.                                               *)
(*                                                                         *)
(* Time is an integer clock `now` counting 1/TicksPerSecond seconds.       *)
(* In the richer variant enemy and projectile coordinates are floats; they *)
(* are modelled in fixed point, Scale sub-units per map cell.              *)
(***************************************************************************)
EXTENDS Integers, Sequences, FiniteSets

VARIABLES
    variant,          \* which program runs: "simple" or "richer"
    os_name,          \* os.name of the platform (simple variant branches on it)
    pc,               \* position of the main loop
    now,              \* time.time(), in units of 1/TicksPerSecond s
    key,              \* the key read in the current tick ("none": no key pending)
    player,           \* game.player
    enemies,          \* game.enemies
    game_over,        \* game.game_over
    screen,           \* the character grid last drawn (cell -> glyph)
    bullets,          \* simple: game.bullets
    score,            \* simple: game.score
    last_spawn_time,  \* simple: game.last_spawn_time
    last_update_time, \* simple: game.last_update_time
    current_time,     \* simple: local current_time of the running tick
    map,              \* richer: game.map (cell -> "#" or ".")
    projectiles,      \* richer: game.projectiles
    last_update,      \* richer: game.last_update
    delta_time,       \* richer: local delta_time of the running tick, in clock units
    ticks             \* richer: number of loop iterations started

simpleVars == <<bullets, score, last_spawn_time, last_update_time, current_time, os_name>>
richerVars == <<map, projectiles, last_update, delta_time, ticks>>

vars == <<variant, pc, now, key, player, enemies, game_over, screen,
          simpleVars, richerVars>>

----------------------------------------------------------------------------
(* Bounds of the model *)

MAP_WIDTH == 5          \* grid width  (40 in the source)
MAP_HEIGHT == 3         \* grid height (20 in the source)
NUM_ENEMIES == 2        \* enemies spawned at game start (10 in the source)
InitialHealth == 10     \* Player.health at construction (100 in the source)
InitialAmmo == 1        \* Player.ammo at construction (10 in the source)
TicksPerSecond == 2     \* resolution of the clock
Scale == 2              \* fixed-point sub-units per map cell
MaxSleep == 2           \* longest time between two loop iterations, in clock units
MaxTime == 4            \* the clock stops advancing here
MaxTicks == 2           \* richer: the loop is followed for this many iterations
MaxBullets == 2         \* player shots are not requested beyond this many live projectiles
GenWidth == 6           \* construction on its own: grid width
GenHeight == 5          \* construction on its own: grid height

----------------------------------------------------------------------------
(* Arithmetic helpers *)

\* a * sqrt(D) <= b, for integers a, b and D >= 0, decided without roots
SqrtLeq(a, D, b) ==
    IF a >= 0 THEN b >= 0 /\ a * a * D <= b * b
              ELSE b >= 0 \/ a * a * D >= b * b

Min(a, b) == IF a <= b THEN a ELSE b

\* Python list.remove(v): drops the first element equal to v by value
RemoveFirst(s, v) ==
    LET idx == {i \in 1..Len(s) : s[i] = v}
    IN  IF idx = {} THEN s
        ELSE LET k == CHOOSE i \in idx : \A j \in idx : i <= j
             IN  SubSeq(s, 1, k - 1) \o SubSeq(s, k + 1, Len(s))

Cells == (0..(MAP_WIDTH - 1)) \X (0..(MAP_HEIGHT - 1))

\* mutant of InGrid: the upper bounds are tested with <= instead of <
InGridInclusive(x, y) == 0 <= x /\ x <= MAP_WIDTH /\ 0 <= y /\ y <= MAP_HEIGHT

\* 0 <= x < width and 0 <= y < height
InGrid(x, y) == 0 <= x /\ x < MAP_WIDTH /\ 0 <= y /\ y < MAP_HEIGHT

----------------------------------------------------------------------------
(* Simple variant: src/backup.py *)

\* dataclass Entity(x, y, char, dx=0, dy=0, is_enemy=False)
Entity(x, y, char, dx, dy, is_enemy) ==
    [x |-> x, y |-> y, char |-> char, dx |-> dx, dy |-> dy, is_enemy |-> is_enemy]

\* int(d/dist + 0.5) with dist = sqrt(D) > 0: Python's int() truncates toward zero
IntStep(d, D) ==
    IF SqrtLeq(1, D, 2 * d) THEN 1          \* d/dist + 0.5 >= 1
    ELSE IF SqrtLeq(3, D, -2 * d) THEN -1   \* d/dist + 0.5 <= -1
    ELSE 0

\* one iteration of the loop of move_enemies: the moved enemy
MoveEnemy(e, p) ==
    LET dx == p.x - e.x
        dy == p.y - e.y
        D  == dx * dx + dy * dy
    IN  IF D # 0 THEN [e EXCEPT !.x = e.x + IntStep(dx, D), !.y = e.y + IntStep(dy, D)]
        ELSE e

\* spawn_enemy's border points: top, bottom, left, right
BorderPoints ==
    {<<x, 0>> : x \in 0..(MAP_WIDTH - 1)} \cup
    {<<x, MAP_HEIGHT - 1>> : x \in 0..(MAP_WIDTH - 1)} \cup
    {<<0, y>> : y \in 0..(MAP_HEIGHT - 1)} \cup
    {<<MAP_WIDTH - 1, y>> : y \in 0..(MAP_HEIGHT - 1)}

\* shoot(direction): the bullet created next to the player
BulletChar(dx, dy) ==
    IF dx = 1 THEN "right" ELSE IF dx = -1 THEN "left"
    ELSE IF dy = 1 THEN "down" ELSE IF dy = -1 THEN "up" ELSE "right"

NewBullet(p, dx, dy) == Entity(p.x + dx, p.y + dy, BulletChar(dx, dy), dx, dy, FALSE)

\* Result of visiting the bullets of the copy bullets[:] from index k on.
\* objs[i] is the i-th object of the copy (moved in place when visited), bs
\* the live list and ids[j] the index in the copy of the object at bs[j].
\* list.remove compares by value (dataclass __eq__), so it drops the first
\* live element EQUAL to its argument and raises ValueError if there is none.
\* distinct tells whether, after each move, the live list held no two elements
\* equal by value, so that each remove dropped the very object it was given.
RECURSIVE UpdateBullets(_, _, _, _, _, _)
UpdateBullets(k, objs, bs, ids, es, sc) ==
    IF k > Len(objs)
      THEN [bullets |-> bs, enemies |-> es, score |-> sc, error |-> FALSE, distinct |-> TRUE]
    ELSE
      LET b    == objs[k]
          m    == [b EXCEPT !.x = b.x + b.dx, !.y = b.y + b.dy]
          objs1 == [objs EXCEPT ![k] = m]
          bs1  == [j \in 1..Len(bs) |-> IF ids[j] = k THEN m ELSE bs[j]]
          eq   == {j \in 1..Len(bs1) : bs1[j] = m}
          r    == CHOOSE j \in eq : \A i \in eq : j <= i
          bs2  == SubSeq(bs1, 1, r - 1) \o SubSeq(bs1, r + 1, Len(bs1))
          ids2 == SubSeq(ids, 1, r - 1) \o SubSeq(ids, r + 1, Len(ids))
          hit  == {i \in 1..Len(es) : es[i].x = m.x /\ es[i].y = m.y}
          h    == CHOOSE i \in hit : \A j \in hit : i <= j
          rest ==
            IF ~InGrid(m.x, m.y) \/ hit # {}
              THEN IF eq = {}
                     THEN [bullets |-> bs1,
                           enemies |-> IF InGrid(m.x, m.y) THEN RemoveFirst(es, es[h]) ELSE es,
                           score |-> sc, error |-> TRUE, distinct |-> TRUE]
                     ELSE IF ~InGrid(m.x, m.y)
                            THEN UpdateBullets(k + 1, objs1, bs2, ids2, es, sc)
                            ELSE UpdateBullets(k + 1, objs1, bs2, ids2,
                                               RemoveFirst(es, es[h]), sc + 10)
            ELSE UpdateBullets(k + 1, objs1, bs1, ids, es, sc)
      IN  [rest EXCEPT !.distinct =
              @ /\ \A i, j \in 1..Len(bs1) : bs1[i] = bs1[j] => i = j]

\* Python indexing of a list of length n: a negative index counts from the end
PyIndex(i, n) == IF i < 0 THEN i + n ELSE i

\* writing the glyphs of ents into grid in order: a later one overwrites
RECURSIVE Overlay(_, _)
Overlay(grid, ents) ==
    IF ents = <<>> THEN grid
    ELSE LET e == Head(ents)
             c == <<PyIndex(e.x, MAP_WIDTH), PyIndex(e.y, MAP_HEIGHT)>>
         IN  Overlay(IF c \in Cells THEN [grid EXCEPT ![c] = e.char] ELSE grid, Tail(ents))

\* draw: bullets, then enemies, then the player on an empty grid
Draw(bs, es, p) ==
    Overlay(Overlay(Overlay([c \in Cells |-> " "], bs), es), <<p>>)

\* "none": no key is pending, or the key read is bound to nothing
KeysSimple == {"none", "q", "w", "a", "s", "d", "i", "j", "k", "l"}

ShootDir(k) ==
    CASE k = "i" -> <<0, -1>>
      [] k = "k" -> <<0, 1>>
      [] k = "j" -> <<-1, 0>>
      [] k = "l" -> <<1, 0>>

\* mutant of MovePlayer: the edge tests are missing
MovePlayerNoEdgeTest(p, k) ==
    IF k = "w" THEN [p EXCEPT !.y = p.y - 1]
    ELSE IF k = "s" THEN [p EXCEPT !.y = p.y + 1]
    ELSE IF k = "a" THEN [p EXCEPT !.x = p.x - 1]
    ELSE IF k = "d" THEN [p EXCEPT !.x = p.x + 1]
    ELSE p

\* the player after the movement branch of main's key dispatch
MovePlayer(p, k) ==
    IF k = "w" /\ p.y > 0 THEN [p EXCEPT !.y = p.y - 1]
    ELSE IF k = "s" /\ p.y < MAP_HEIGHT - 1 THEN [p EXCEPT !.y = p.y + 1]
    ELSE IF k = "a" /\ p.x > 0 THEN [p EXCEPT !.x = p.x - 1]
    ELSE IF k = "d" /\ p.x < MAP_WIDTH - 1 THEN [p EXCEPT !.x = p.x + 1]
    ELSE p

\* Game.__init__ of the simple variant
InitSimple ==
    /\ variant = "simple"
    /\ os_name \in {"nt", "posix"}
    /\ pc = "loop"
    /\ now = 0
    /\ key = "none"
    /\ player = Entity(MAP_WIDTH \div 2, MAP_HEIGHT \div 2, "@", 0, 0, FALSE)
    /\ bullets = <<>>
    /\ enemies = <<>>
    /\ score = 0
    /\ game_over = FALSE
    /\ last_spawn_time = 0
    /\ last_update_time = 0
    /\ current_time = 0
    /\ screen = [c \in Cells |-> " "]
    /\ map = <<>>
    /\ projectiles = <<>>
    /\ last_update = 0
    /\ delta_time = 0
    /\ ticks = 0

\* frame_delay = 0.05 s has elapsed since the last frame
FrameDue == (now - last_update_time) * 100 >= 5 * TicksPerSecond

\* top of `while not game.game_over`
BkLoop ==
    /\ variant = "simple" /\ pc = "loop"
    /\ IF game_over THEN pc' = "done" /\ UNCHANGED current_time
       ELSE /\ current_time' = now
            /\ pc' = IF FrameDue THEN "input" ELSE "sleep"
    /\ UNCHANGED <<richerVars, variant, os_name, now, key, player, enemies, game_over, screen,
                   bullets, score, last_spawn_time, last_update_time>>

\* Unix branch: `select` is used but never imported, so the poll raises NameError
BkInputPosix ==
    /\ variant = "simple" /\ pc = "input" /\ os_name = "posix"
    /\ pc' = "crashed"
    /\ UNCHANGED <<richerVars, variant, os_name, now, key, player, enemies, game_over, screen,
                   bullets, score, last_spawn_time, last_update_time, current_time>>

\* mutant of BkInput: a shooting key is processed twice in the tick
BkInputShootsTwice ==
    /\ variant = "simple" /\ pc = "input" /\ os_name = "nt"
    /\ \E k \in KeysSimple :
         /\ k \in {"i", "j", "k", "l"} => Len(bullets) < MaxBullets
         /\ key' = k
         /\ pc' = IF k = "q" THEN "done" ELSE "spawn"
         /\ player' = IF k = "q" THEN player ELSE MovePlayer(player, k)
         /\ bullets' = IF k \in {"i", "j", "k", "l"}
                         THEN bullets \o <<NewBullet(player, ShootDir(k)[1], ShootDir(k)[2]),
                                           NewBullet(player, ShootDir(k)[1], ShootDir(k)[2])>>
                         ELSE bullets
    /\ UNCHANGED <<richerVars, variant, os_name, now, enemies, game_over, screen,
                   score, last_spawn_time, last_update_time, current_time>>

\* Windows branch: get_key() and the key dispatch
BkInput ==
    /\ variant = "simple" /\ pc = "input" /\ os_name = "nt"
    /\ \E k \in KeysSimple :
         /\ k \in {"i", "j", "k", "l"} => Len(bullets) < MaxBullets
         /\ key' = k
         /\ pc' = IF k = "q" THEN "done" ELSE "spawn"
         /\ player' = IF k = "q" THEN player ELSE MovePlayer(player, k)
         /\ bullets' = IF k \in {"i", "j", "k", "l"}
                         THEN Append(bullets, NewBullet(player, ShootDir(k)[1], ShootDir(k)[2]))
                         ELSE bullets
    /\ UNCHANGED <<richerVars, variant, os_name, now, enemies, game_over, screen,
                   score, last_spawn_time, last_update_time, current_time>>

\* mutant of BkSpawn: the once-per-second test is missing
BkSpawnEveryTick ==
    /\ variant = "simple" /\ pc = "spawn"
    /\ \E c \in BorderPoints :
         /\ enemies' = Append(enemies, Entity(c[1], c[2], "E", 0, 0, TRUE))
         /\ last_spawn_time' = now
    /\ pc' = "move"
    /\ UNCHANGED <<richerVars, variant, os_name, now, key, player, game_over, screen,
                   bullets, score, last_update_time, current_time>>

\* spawn_enemy
BkSpawn ==
    /\ variant = "simple" /\ pc = "spawn"
    /\ IF now - last_spawn_time >= 1 * TicksPerSecond
         THEN \E c \in BorderPoints :
                /\ enemies' = Append(enemies, Entity(c[1], c[2], "E", 0, 0, TRUE))
                /\ last_spawn_time' = now
         ELSE UNCHANGED <<enemies, last_spawn_time>>
    /\ pc' = "move"
    /\ UNCHANGED <<richerVars, variant, os_name, now, key, player, game_over, screen,
                   bullets, score, last_update_time, current_time>>

\* mutant of BkMoveEnemies: the collision test is made only for an enemy that
\* has moved (as if it stood inside `if dist != 0`)
BkMoveEnemiesTestsMoversOnly ==
    /\ variant = "simple" /\ pc = "move"
    /\ enemies' = [i \in 1..Len(enemies) |-> MoveEnemy(enemies[i], player)]
    /\ game_over' = (game_over \/ \E i \in 1..Len(enemies) :
                        /\ enemies'[i] # enemies[i]
                        /\ enemies'[i].x = player.x
                        /\ enemies'[i].y = player.y)
    /\ pc' = "bullets"
    /\ UNCHANGED <<richerVars, variant, os_name, now, key, player, screen,
                   bullets, score, last_spawn_time, last_update_time, current_time>>

\* move_enemies
BkMoveEnemies ==
    /\ variant = "simple" /\ pc = "move"
    /\ enemies' = [i \in 1..Len(enemies) |-> MoveEnemy(enemies[i], player)]
    /\ game_over' = (game_over \/ \E i \in 1..Len(enemies) :
                        /\ enemies'[i].x = player.x
                        /\ enemies'[i].y = player.y)
    /\ pc' = "bullets"
    /\ UNCHANGED <<richerVars, variant, os_name, now, key, player, screen,
                   bullets, score, last_spawn_time, last_update_time, current_time>>

\* update_bullets
BkUpdateBullets ==
    /\ variant = "simple" /\ pc = "bullets"
    /\ LET r == UpdateBullets(1, bullets, bullets, [j \in 1..Len(bullets) |-> j],
                              enemies, score)
       IN  /\ bullets' = r.bullets
           /\ enemies' = r.enemies
           /\ score' = r.score
           /\ pc' = IF r.error THEN "crashed" ELSE "draw"
    /\ UNCHANGED <<richerVars, variant, os_name, now, key, player, game_over, screen,
                   last_spawn_time, last_update_time, current_time>>

\* draw, then game.last_update_time = current_time
BkDraw ==
    /\ variant = "simple" /\ pc = "draw"
    /\ screen' = Draw(bullets, enemies, player)
    /\ last_update_time' = current_time
    /\ pc' = "sleep"
    /\ UNCHANGED <<richerVars, variant, os_name, now, key, player, enemies, game_over,
                   bullets, score, last_spawn_time, current_time>>

\* time.sleep(0.01): the clock advances by d units before the next iteration
BkSleep ==
    /\ variant = "simple" /\ pc = "sleep"
    /\ \E d \in 0..MaxSleep :
         /\ now + d <= MaxTime
         /\ now' = now + d
    /\ pc' = "loop"
    /\ UNCHANGED <<richerVars, variant, os_name, key, player, enemies, game_over, screen,
                   bullets, score, last_spawn_time, last_update_time, current_time>>

NextSimple ==
    \/ BkLoop \/ BkInputPosix \/ BkInput \/ BkSpawn
    \/ BkMoveEnemies \/ BkUpdateBullets \/ BkDraw \/ BkSleep

SpecSimple == InitSimple /\ [][NextSimple]_vars

----------------------------------------------------------------------------
(* Richer variant: src/main.py *)

ProjectileSpeed == 2    \* Projectile.speed, cells per second
EnemySpeedDen == 2      \* Enemy.speed = 0.5 = 1 / EnemySpeedDen cells per second
HitDamage == 10         \* health lost per enemy projectile
KillAmmo == 2           \* ammo gained per enemy killed
JitterTenths == 2       \* random.uniform(-0.2, 0.2) added to each direction component
WALL_DENSITY == 30      \* width * height // WALL_DENSITY random walls are drawn

\* nearest integer to a / b, b > 0
RoundDiv(a, b) == (2 * a + b) \div (2 * b)

\* int(v) of the fixed-point value v: truncation toward zero, in cells
IntCell(v) == IF v >= 0 THEN v \div Scale ELSE -((-v) \div Scale)

\* math.floor(v) of the fixed-point value v, in cells
FloorCell(v) == v \div Scale

Interior == (1..(MAP_WIDTH - 2)) \X (1..(MAP_HEIGHT - 2))

\* generate_map: border walls, and the cells hit by the
\* width*height // WALL_DENSITY random draws (draws may coincide)
NumRandomWalls == (MAP_WIDTH * MAP_HEIGHT) \div WALL_DENSITY

GenerateMap(walls) ==
    [c \in Cells |->
        IF c[1] = 0 \/ c[1] = MAP_WIDTH - 1 \/ c[2] = 0 \/ c[2] = MAP_HEIGHT - 1
             \/ c \in walls
        THEN "#" ELSE "."]

RandomWalls ==
    {w \in SUBSET Interior :
        /\ Cardinality(w) <= NumRandomWalls
        /\ NumRandomWalls > 0 => w # {}}

\* spawn_entity: the cells the rejection sampling can return
SpawnCells(m) == {c \in Interior : m[c] = "."}

Player(x, y) ==
    [x |-> x, y |-> y, char |-> "@", health |-> InitialHealth, speed |-> 1,
     ammo |-> InitialAmmo]

\* shoot_delay = random.uniform(1, 3) seconds, drawn at the ends of the range
ShootDelays == {1 * TicksPerSecond, 3 * TicksPerSecond}

\* Enemy at cell (x, y); x and y are kept in fixed point
Enemy(x, y, t, delay) ==
    [x |-> x * Scale, y |-> y * Scale, char |-> "E", health |-> 50,
     last_shot_time |-> t, shoot_delay |-> delay]

\* Projectile from the fixed-point position (x, y) with direction (dx, dy),
\* the direction in fixed point as well
Projectile(x, y, dx, dy, is_enemy) ==
    [x |-> x, y |-> y, char |-> IF is_enemy THEN "+" ELSE "*",
     dx |-> dx, dy |-> dy, speed |-> ProjectileSpeed, is_enemy |-> is_enemy]

\* Game.__init__ at clock value t: the game states it can construct
Constructions(t) ==
    UNION {
      LET m == GenerateMap(w) IN
      {[map |-> m,
        player |-> Player(c[1], c[2]),
        enemies |-> [i \in 1..NUM_ENEMIES |-> Enemy(cs[i][1], cs[i][2], t, ds[i])]] :
         c \in SpawnCells(m),
         cs \in [1..NUM_ENEMIES -> SpawnCells(m)],
         ds \in [1..NUM_ENEMIES -> ShootDelays]}
      : w \in RandomWalls}

\* the game as constructed at clock value 0; run() starts up to MaxSleep later
InitRicher ==
    /\ variant = "richer"
    /\ pc = "loop"
    /\ now \in 0..MaxSleep
    /\ key = "none"
    /\ \E g \in Constructions(0) :
         /\ map = g.map
         /\ player = g.player
         /\ enemies = g.enemies
    /\ projectiles = <<>>
    /\ last_update = 0
    /\ game_over = FALSE
    /\ delta_time = 0
    /\ ticks = 0
    /\ screen = [c \in Cells |-> " "]
    /\ bullets = <<>>
    /\ score = 0
    /\ last_spawn_time = 0
    /\ last_update_time = 0
    /\ current_time = 0
    /\ os_name = "posix"

\* mutant of MoveEntity: the destination tile is not tested for a wall
MoveEntityNoWallTest(m, e, dx, dy) ==
    LET new_x == e.x + dx
        new_y == e.y + dy
    IN  IF InGrid(new_x, new_y)
          THEN [e EXCEPT !.x = new_x, !.y = new_y]
          ELSE e

\* move_entity(player, dx, dy)
MoveEntity(m, e, dx, dy) ==
    LET new_x == e.x + dx
        new_y == e.y + dy
    IN  IF InGrid(new_x, new_y) /\ m[<<new_x, new_y>>] = "."
          THEN [e EXCEPT !.x = new_x, !.y = new_y]
          ELSE e

KeysRicher == {"none", "UP", "DOWN", "LEFT", "RIGHT",
               "w", "s", "a", "d", "q", "e", "z", "c", "x"}

MoveKeys == {"UP", "DOWN", "LEFT", "RIGHT"}
ShootKeys == {"w", "s", "a", "d", "q", "e", "z", "c"}

\* handle_input's key table: the direction of a movement or shooting key
KeyDir(k) ==
    CASE k = "UP" -> <<0, -1>>   [] k = "DOWN" -> <<0, 1>>
      [] k = "LEFT" -> <<-1, 0>> [] k = "RIGHT" -> <<1, 0>>
      [] k = "w" -> <<0, -1>>    [] k = "s" -> <<0, 1>>
      [] k = "a" -> <<-1, 0>>    [] k = "d" -> <<1, 0>>
      [] k = "q" -> <<-1, -1>>   [] k = "e" -> <<1, -1>>
      [] k = "z" -> <<-1, 1>>    [] k = "c" -> <<1, 1>>

\* mutant of PlayerShoot: a shot does not use up ammo
PlayerShootFree(p, ps, dx, dy) ==
    IF p.ammo <= 0 THEN [player |-> p, projectiles |-> ps]
    ELSE [player |-> p,
          projectiles |-> Append(ps, Projectile(p.x * Scale, p.y * Scale,
                                                dx * Scale, dy * Scale, FALSE))]

\* mutant of PlayerShoot: the ammo test is missing
PlayerShootNoAmmoTest(p, ps, dx, dy) ==
    [player |-> [p EXCEPT !.ammo = p.ammo - 1],
     projectiles |-> Append(ps, Projectile(p.x * Scale, p.y * Scale,
                                           dx * Scale, dy * Scale, FALSE))]

\* shoot(player.x, player.y, dx, dy): the player and the projectile list afterwards
PlayerShoot(p, ps, dx, dy) ==
    IF p.ammo <= 0 THEN [player |-> p, projectiles |-> ps]
    ELSE [player |-> [p EXCEPT !.ammo = p.ammo - 1],
          projectiles |-> Append(ps, Projectile(p.x * Scale, p.y * Scale,
                                                dx * Scale, dy * Scale, FALSE))]

\* top of `while not self.game_over`: delta_time and last_update
RunLoop ==
    /\ variant = "richer" /\ pc = "loop"
    /\ IF game_over THEN pc' = "done" /\ UNCHANGED <<delta_time, last_update, ticks>>
       ELSE /\ ticks' = ticks + 1
            /\ delta_time' = now - last_update
            /\ last_update' = now
            /\ pc' = "input"
    /\ UNCHANGED <<simpleVars, variant, now, key, player, enemies, game_over, screen,
                   map, projectiles>>

\* handle_input
HandleInput ==
    /\ variant = "richer" /\ pc = "input"
    /\ \E k \in KeysRicher :
         /\ (k \in ShootKeys /\ player.ammo > 0) => Len(projectiles) < MaxBullets
         /\ key' = k
         /\ IF k \in MoveKeys
              THEN /\ player' = MoveEntity(map, player, KeyDir(k)[1], KeyDir(k)[2])
                   /\ UNCHANGED <<projectiles, game_over>>
            ELSE IF k \in ShootKeys
              THEN LET r == PlayerShoot(player, projectiles, KeyDir(k)[1], KeyDir(k)[2])
                   IN  /\ player' = r.player
                       /\ projectiles' = r.projectiles
                       /\ UNCHANGED game_over
            ELSE IF k = "x"
              THEN game_over' = TRUE /\ UNCHANGED <<player, projectiles>>
            ELSE UNCHANGED <<player, projectiles, game_over>>
    /\ pc' = "projectiles"
    /\ UNCHANGED <<simpleVars, variant, now, enemies, screen,
                   map, last_update, delta_time, ticks>>

\* projectile q after `x += dx * speed * delta_time` (and y), dt in clock units
Advance(q, dt) ==
    [q EXCEPT !.x = q.x + RoundDiv(q.dx * q.speed * dt, TicksPerSecond),
              !.y = q.y + RoundDiv(q.dy * q.speed * dt, TicksPerSecond)]

\* the bounds test of update_projectiles on a fixed-point position
OutOfBounds(x, y) ==
    x < 0 \/ x >= MAP_WIDTH * Scale \/ y < 0 \/ y >= MAP_HEIGHT * Scale

\* mutant of RemoveEnemy: every enemy on the cell of the h-th one is dropped
RemoveEnemiesOnCell(es, h) ==
    SelectSeq(es, LAMBDA e : ~(/\ FloorCell(e.x) = FloorCell(es[h].x)
                               /\ FloorCell(e.y) = FloorCell(es[h].y)))

\* self.enemies.remove(enemy) for the h-th enemy: removal by identity
RemoveEnemy(es, h) == SubSeq(es, 1, h - 1) \o SubSeq(es, h + 1, Len(es))

\* update_projectiles, from the k-th projectile of the copy projectiles[:] on.
\* ps holds the objects of the copy (moved in place when visited), alive the
\* indices still in the live list; removal is by identity.
RECURSIVE UpdateProjectilesFrom(_, _, _, _, _, _, _, _)
UpdateProjectilesFrom(k, ps, alive, es, p, go, m, dt) ==
    IF k > Len(ps)
      THEN [projectiles |-> ps, alive |-> alive, enemies |-> es, player |-> p,
            game_over |-> go]
    ELSE
      LET q   == Advance(ps[k], dt)
          nx  == q.x
          ny  == q.y
          ps1 == [ps EXCEPT ![k] = q]
          hit == {i \in 1..Len(es) : /\ FloorCell(es[i].x) = FloorCell(nx)
                                     /\ FloorCell(es[i].y) = FloorCell(ny)}
          h   == CHOOSE i \in hit : \A j \in hit : i <= j
      IN  IF OutOfBounds(nx, ny)
            THEN UpdateProjectilesFrom(k + 1, ps1, alive \ {k}, es, p, go, m, dt)
          ELSE IF m[<<IntCell(nx), IntCell(ny)>>] = "#"
            THEN UpdateProjectilesFrom(k + 1, ps1, alive \ {k}, es, p, go, m, dt)
          ELSE IF q.is_enemy
            THEN IF p.x = FloorCell(nx) /\ p.y = FloorCell(ny)
                   THEN LET p1 == [p EXCEPT !.health = p.health - HitDamage]
                        IN  UpdateProjectilesFrom(k + 1, ps1, alive \ {k}, es, p1,
                                                  go \/ p1.health <= 0, m, dt)
                   ELSE UpdateProjectilesFrom(k + 1, ps1, alive, es, p, go, m, dt)
          ELSE IF hit # {}
            THEN UpdateProjectilesFrom(k + 1, ps1, alive \ {k}, RemoveEnemy(es, h),
                     [p EXCEPT !.ammo = p.ammo + KillAmmo], go, m, dt)
          ELSE UpdateProjectilesFrom(k + 1, ps1, alive, es, p, go, m, dt)

\* the elements of s at the indices in keep, in order
RECURSIVE Keep(_, _, _)
Keep(s, keep, i) ==
    IF i > Len(s) THEN <<>>
    ELSE (IF i \in keep THEN <<s[i]>> ELSE <<>>) \o Keep(s, keep, i + 1)

UpdateProjectiles ==
    /\ variant = "richer" /\ pc = "projectiles"
    /\ LET r == UpdateProjectilesFrom(1, projectiles, 1..Len(projectiles), enemies,
                                      player, game_over, map, delta_time)
       IN  /\ projectiles' = Keep(r.projectiles, r.alive, 1)
           /\ enemies' = r.enemies
           /\ player' = r.player
           /\ game_over' = r.game_over
    /\ pc' = "enemies"
    /\ UNCHANGED <<simpleVars, variant, now, key, screen,
                   map, last_update, delta_time, ticks>>

\* one direction component of update_enemies after normalisation, jitter and
\* scaling: s sub-units is a possible value of (d/dist + jitter) * speed * dt,
\* rounded to the fixed-point grid, where dist = sqrt(D) and dt clock units passed
StepOK(s, d, D, dt) ==
    LET A  == dt * Scale
        B  == EnemySpeedDen * TicksPerSecond
        lo == 10 * s * B - 5 * B - JitterTenths * A
        hi == 10 * s * B + 5 * B + JitterTenths * A
    IN  IF D = 0 THEN lo <= 0 /\ 0 <= hi
        ELSE SqrtLeq(lo, D, 10 * A * d) /\ SqrtLeq(-hi, D, -10 * A * d)

StepRange(dt) == LET K == (12 * dt * Scale) \div (10 * EnemySpeedDen * TicksPerSecond) + 1
                 IN  (-K)..K

\* a component of the unit vector toward the player, in fixed point:
\* the nearest multiple of 1/Scale to d / sqrt(D)
UnitComponent(d, D) ==
    IF D = 0 THEN d * Scale
    ELSE CHOOSE r \in (-Scale)..Scale :
           /\ SqrtLeq(2 * r - 1, D, 2 * Scale * d)
           /\ ~SqrtLeq(2 * r + 1, D, 2 * Scale * d)

\* mutant of CanEnter: only the bounds are tested, not the tile
CanEnterAnyTile(m, new_x, new_y) ==
    /\ 0 <= IntCell(new_x) /\ IntCell(new_x) < MAP_WIDTH
    /\ 0 <= IntCell(new_y) /\ IntCell(new_y) < MAP_HEIGHT

\* update_enemies' test of the new position (new_x, new_y), in fixed point
CanEnter(m, new_x, new_y) ==
    /\ 0 <= IntCell(new_x) /\ IntCell(new_x) < MAP_WIDTH
    /\ 0 <= IntCell(new_y) /\ IntCell(new_y) < MAP_HEIGHT
    /\ m[<<IntCell(new_x), IntCell(new_y)>>] = "."

\* mutant of EnemyOutcomes: the enemy shoots without the test of its timer
EnemyOutcomesShootsAlways(e, p, m, dt, t) ==
    LET dx == p.x * Scale - e.x
        dy == p.y * Scale - e.y
        D  == dx * dx + dy * dy
        Moved(sx, sy) ==
            LET new_x == e.x + sx
                new_y == e.y + sy
            IN  IF CanEnter(m, new_x, new_y)
                  THEN [e EXCEPT !.x = new_x, !.y = new_y]
                  ELSE e
        Shot(e1) ==
            LET sdx == p.x * Scale - e1.x
                sdy == p.y * Scale - e1.y
                SD  == sdx * sdx + sdy * sdy
            IN  Projectile(e1.x, e1.y, UnitComponent(sdx, SD), UnitComponent(sdy, SD), TRUE)
        moves == {Moved(sx, sy) : sx \in {s \in StepRange(dt) : StepOK(s, dx, D, dt)},
                                  sy \in {s \in StepRange(dt) : StepOK(s, dy, D, dt)}}
    IN  IF TRUE
          THEN {[enemy |-> [e1 EXCEPT !.last_shot_time = t, !.shoot_delay = d],
                 shots |-> <<Shot(e1)>>] : e1 \in moves, d \in ShootDelays}
          ELSE {[enemy |-> e1, shots |-> <<>>] : e1 \in moves}

\* one iteration of update_enemies for enemy e: the possible outcomes, each the
\* enemy afterwards and the projectiles it appended
EnemyOutcomes(e, p, m, dt, t) ==
    LET dx == p.x * Scale - e.x
        dy == p.y * Scale - e.y
        D  == dx * dx + dy * dy
        Moved(sx, sy) ==
            LET new_x == e.x + sx
                new_y == e.y + sy
            IN  IF CanEnter(m, new_x, new_y)
                  THEN [e EXCEPT !.x = new_x, !.y = new_y]
                  ELSE e
        Shot(e1) ==
            LET sdx == p.x * Scale - e1.x
                sdy == p.y * Scale - e1.y
                SD  == sdx * sdx + sdy * sdy
            IN  Projectile(e1.x, e1.y, UnitComponent(sdx, SD), UnitComponent(sdy, SD), TRUE)
        moves == {Moved(sx, sy) : sx \in {s \in StepRange(dt) : StepOK(s, dx, D, dt)},
                                  sy \in {s \in StepRange(dt) : StepOK(s, dy, D, dt)}}
    IN  IF t - e.last_shot_time >= e.shoot_delay
          THEN {[enemy |-> [e1 EXCEPT !.last_shot_time = t, !.shoot_delay = d],
                 shots |-> <<Shot(e1)>>] : e1 \in moves, d \in ShootDelays}
          ELSE {[enemy |-> e1, shots |-> <<>>] : e1 \in moves}

RECURSIVE Shots(_, _)
Shots(f, i) == IF i > Len(f) THEN <<>> ELSE f[i].shots \o Shots(f, i + 1)

\* update_enemies
UpdateEnemies ==
    /\ variant = "richer" /\ pc = "enemies"
    /\ \E f \in [1..Len(enemies) ->
                   UNION {EnemyOutcomes(enemies[i], player, map, delta_time, now) :
                            i \in 1..Len(enemies)}] :
         /\ \A i \in 1..Len(enemies) :
              f[i] \in EnemyOutcomes(enemies[i], player, map, delta_time, now)
         /\ enemies' = [i \in 1..Len(enemies) |-> f[i].enemy]
         /\ projectiles' = projectiles \o Shots(f, 1)
    /\ pc' = "render"
    /\ UNCHANGED <<simpleVars, variant, now, key, player, game_over, screen,
                   map, last_update, delta_time, ticks>>

\* the glyphs render writes after the map, in order: player, enemies, projectiles
RenderItems(p, es, ps) ==
    <<[x |-> p.x, y |-> p.y, char |-> p.char]>>
    \o [i \in 1..Len(es) |-> [x |-> IntCell(es[i].x), y |-> IntCell(es[i].y),
                              char |-> es[i].char]]
    \o [i \in 1..Len(ps) |-> [x |-> IntCell(ps[i].x), y |-> IntCell(ps[i].y),
                              char |-> ps[i].char]]

\* mutant of Render: the win branch is taken with one enemy left
RenderWinsEarly ==
    /\ variant = "richer" /\ pc = "render"
    /\ screen' = Overlay(map, RenderItems(player, enemies, projectiles))
    /\ pc' = IF Len(enemies) <= 1 THEN "win" ELSE "sleep"
    /\ UNCHANGED <<simpleVars, variant, now, key, player, enemies, game_over,
                   map, projectiles, last_update, delta_time, ticks>>

\* render, then the test `if not self.enemies`
Render ==
    /\ variant = "richer" /\ pc = "render"
    /\ screen' = Overlay(map, RenderItems(player, enemies, projectiles))
    /\ pc' = IF enemies = <<>> THEN "win" ELSE "sleep"
    /\ UNCHANGED <<simpleVars, variant, now, key, player, enemies, game_over,
                   map, projectiles, last_update, delta_time, ticks>>

\* the win branch of run: clear the screen and show the two messages (the
\* text is not part of the grid, which is left blank)
ShowWinPrompt ==
    /\ variant = "richer" /\ pc = "win"
    /\ screen' = [c \in Cells |-> " "]
    /\ pc' = "prompt"
    /\ UNCHANGED <<simpleVars, variant, now, key, player, enemies, game_over,
                   map, projectiles, last_update, delta_time, ticks>>

\* mutant of WinPrompt: y rebuilds the map and the enemies but keeps the player
WinPromptKeepsPlayer ==
    /\ variant = "richer" /\ pc = "prompt"
    /\ \/ /\ key' = "y"
          /\ \E g \in Constructions(now) :
               /\ map' = g.map
               /\ enemies' = g.enemies
          /\ player' = player
          /\ projectiles' = <<>>
          /\ last_update' = now
          /\ game_over' = FALSE
          /\ pc' = "sleep"
       \/ /\ key' = "q"
          /\ game_over' = TRUE
          /\ pc' = "sleep"
          /\ UNCHANGED <<map, player, enemies, projectiles, last_update>>
       \/ UNCHANGED <<key, pc, game_over, map, player, enemies, projectiles, last_update>>
    /\ UNCHANGED <<simpleVars, variant, now, screen, delta_time, ticks>>

\* the win prompt's `while True: key = getch()`; any key but y and q is
\* ignored and the loop polls again
WinPrompt ==
    /\ variant = "richer" /\ pc = "prompt"
    /\ \/ /\ key' = "y"
          /\ \E g \in Constructions(now) :
               /\ map' = g.map
               /\ player' = g.player
               /\ enemies' = g.enemies
          /\ projectiles' = <<>>
          /\ last_update' = now
          /\ game_over' = FALSE
          /\ pc' = "sleep"
       \/ /\ key' = "q"
          /\ game_over' = TRUE
          /\ pc' = "sleep"
          /\ UNCHANGED <<map, player, enemies, projectiles, last_update>>
       \/ UNCHANGED <<key, pc, game_over, map, player, enemies, projectiles, last_update>>
    /\ UNCHANGED <<simpleVars, variant, now, screen, delta_time, ticks>>

\* time.sleep(0.05): the clock advances by d units before the next iteration
Sleep ==
    /\ variant = "richer" /\ pc = "sleep"
    /\ ticks < MaxTicks \/ game_over
    /\ \E d \in 0..MaxSleep :
         /\ now + d <= MaxTime
         /\ now' = now + d
    /\ pc' = "loop"
    /\ UNCHANGED <<simpleVars, variant, key, player, enemies, game_over, screen,
                   map, projectiles, last_update, delta_time, ticks>>

NextRicher ==
    \/ RunLoop \/ HandleInput \/ UpdateProjectiles \/ UpdateEnemies
    \/ Render \/ ShowWinPrompt \/ WinPrompt \/ Sleep

SpecRicher == InitRicher /\ [][NextRicher]_vars

----------------------------------------------------------------------------
(* Game.__init__ of src/main.py step by step, on a GenWidth x GenHeight grid:
   generate_map, then spawn_entity for the player and for each enemy.  pc is
   the position in __init__, ticks the number of random walls drawn so far,
   and key notes whether spawn_entity has rejected a draw. *)

GenCells == (0..(GenWidth - 1)) \X (0..(GenHeight - 1))

\* the range of the two randint calls of generate_map and of spawn_entity
GenInterior == (1..(GenWidth - 2)) \X (1..(GenHeight - 2))

\* range(self.width * self.height // WALL_DENSITY)
GenNumRandomWalls == (GenWidth * GenHeight) \div WALL_DENSITY

idleVars == <<simpleVars, variant, now, game_over, screen, projectiles,
              last_update, delta_time>>

InitConstruct ==
    /\ variant = "richer"
    /\ pc = "generate_map"
    /\ map = [c \in GenCells |-> "."]
    /\ player = Player(0, 0)
    /\ enemies = <<>>
    /\ ticks = 0
    /\ key = "none"
    /\ now = 0
    /\ projectiles = <<>>
    /\ last_update = 0
    /\ game_over = FALSE
    /\ delta_time = 0
    /\ screen = [c \in Cells |-> " "]
    /\ bullets = <<>>
    /\ score = 0
    /\ last_spawn_time = 0
    /\ last_update_time = 0
    /\ current_time = 0
    /\ os_name = "posix"

\* generate_map: the floor grid with its border walls
GenBorders ==
    /\ pc = "generate_map"
    /\ map' = [c \in GenCells |->
                 IF c[1] = 0 \/ c[1] = GenWidth - 1 \/ c[2] = 0 \/ c[2] = GenHeight - 1
                 THEN "#" ELSE "."]
    /\ pc' = "random_walls"
    /\ UNCHANGED <<idleVars, player, enemies, ticks, key>>

\* generate_map: one iteration of the random-wall loop
GenRandomWall ==
    /\ pc = "random_walls" /\ ticks < GenNumRandomWalls
    /\ \E c \in GenInterior : map' = [map EXCEPT ![c] = "#"]
    /\ ticks' = ticks + 1
    /\ UNCHANGED <<idleVars, pc, player, enemies, key>>

\* generate_map returns
GenReturn ==
    /\ pc = "random_walls" /\ ticks = GenNumRandomWalls
    /\ pc' = "spawn_player"
    /\ UNCHANGED <<idleVars, map, player, enemies, ticks, key>>

\* mutant of SpawnAccept: the drawn tile is returned without the floor test
SpawnAcceptAnyTile ==
    /\ pc \in {"spawn_player", "spawn_enemies"}
    /\ \E c \in GenInterior :
         IF pc = "spawn_player"
           THEN /\ player' = Player(c[1], c[2])
                /\ pc' = "spawn_enemies"
                /\ UNCHANGED enemies
           ELSE /\ \E d \in ShootDelays : enemies' = Append(enemies, Enemy(c[1], c[2], now, d))
                /\ pc' = IF Len(enemies) + 1 = NUM_ENEMIES THEN "constructed" ELSE pc
                /\ UNCHANGED player
    /\ UNCHANGED <<idleVars, map, ticks, key>>

\* spawn_entity: a draw that hits a floor tile; the entity is returned
SpawnAccept ==
    /\ pc \in {"spawn_player", "spawn_enemies"}
    /\ \E c \in GenInterior :
         /\ map[c] = "."
         /\ IF pc = "spawn_player"
              THEN /\ player' = Player(c[1], c[2])
                   /\ pc' = "spawn_enemies"
                   /\ UNCHANGED enemies
              ELSE /\ \E d \in ShootDelays : enemies' = Append(enemies, Enemy(c[1], c[2], now, d))
                   /\ pc' = IF Len(enemies) + 1 = NUM_ENEMIES THEN "constructed" ELSE pc
                   /\ UNCHANGED player
    /\ UNCHANGED <<idleVars, map, ticks, key>>

\* spawn_entity: a draw that hits a wall tile; the loop draws again
SpawnReject ==
    /\ pc \in {"spawn_player", "spawn_enemies"}
    /\ \E c \in GenInterior : map[c] # "."
    /\ key' = "rejected"
    /\ UNCHANGED <<idleVars, map, pc, player, enemies, ticks>>

NextConstruct == GenBorders \/ GenRandomWall \/ GenReturn \/ SpawnAccept \/ SpawnReject

\* random.randint is fair: a draw that spawn_entity can accept is not put off
\* for ever
SpecConstruct ==
    /\ InitConstruct /\ [][NextConstruct]_vars
    /\ WF_vars(GenBorders) /\ WF_vars(GenRandomWall) /\ WF_vars(GenReturn)
    /\ WF_vars(SpawnAccept)

----------------------------------------------------------------------------
Init == InitSimple \/ InitRicher

Next == NextSimple \/ NextRicher

Spec == Init /\ [][Next]_vars

----------------------------------------------------------------------------
(* Claims *)

PlayerCell == <<player.x, player.y>>

\* the map cell of a fixed-point position
CellOf(e) == <<FloorCell(e.x), FloorCell(e.y)>>

\* C1: in the richer variant the player's health is never negative, also when
\* several enemy projectiles reach the player's cell in the same tick.
C1_HealthNeverNegative ==
    variant = "richer" => player.health >= 0

\* the enemy stands next to the player on one axis
AxisAdjacent(e, p) ==
    \/ e.y = p.y /\ (e.x = p.x - 1 \/ e.x = p.x + 1)
    \/ e.x = p.x /\ (e.y = p.y - 1 \/ e.y = p.y + 1)

\* C2: simple variant, one enemy axis-adjacent to the player on any of the four
\* sides: after move_enemies the enemy is on the player's cell and game_over
\* is true.
C2_AdjacentEnemyReachesPlayer ==
    [][(variant = "simple" /\ pc = "move" /\ Len(enemies) = 1
         /\ AxisAdjacent(enemies[1], player))
        => (enemies'[1].x = player'.x /\ enemies'[1].y = player'.y /\ game_over')]_vars

\* C3: richer variant.  Without a quit key, game_over is false whenever
\* health > 0; and game_over is true at the end of the tick in which health
\* reaches <= 0: it is set when update_projectiles takes health to <= 0 and
\* stays set through the rest of that tick.
C3_GameOverIffDead ==
    /\ [](variant = "richer" /\ game_over /\ player.health > 0 => key \in {"x", "q"})
    /\ [][variant = "richer" =>
            /\ (pc = "projectiles" /\ player'.health <= 0) => game_over'
            /\ (game_over /\ player.health <= 0 /\ pc \in {"enemies", "render", "win", "prompt"})
                  => game_over']_vars

\* number of elements of the sequence es that satisfy Test
Count(es, Test(_)) == Cardinality({i \in 1..Len(es) : Test(es[i])})

C5_ProjectilesInBoundsAtTickEnd ==
    /\ (variant = "simple" /\ pc \in {"draw", "sleep"}) =>
          \A i \in 1..Len(bullets) :
             /\ 0 <= bullets[i].x /\ bullets[i].x < MAP_WIDTH
             /\ 0 <= bullets[i].y /\ bullets[i].y < MAP_HEIGHT
    /\ (variant = "richer" /\ pc \in {"render", "win", "prompt", "sleep"}) =>
          \A i \in 1..Len(projectiles) :
             /\ 0 <= projectiles[i].x /\ projectiles[i].x < MAP_WIDTH * Scale
             /\ 0 <= projectiles[i].y /\ projectiles[i].y < MAP_HEIGHT * Scale

\* simple variant: the bullet shot in this tick left the grid and was removed
\* (no bullet is left and nothing was scored)
C5_Witness ==
    /\ variant = "simple" /\ pc = "draw"
    /\ key \in {"i", "j", "k", "l"}
    /\ bullets = <<>> /\ score = 0

\* the destination of the movement request k from player p
SimpleDest(p, k) ==
    CASE k = "w" -> <<p.x, p.y - 1>> [] k = "s" -> <<p.x, p.y + 1>>
      [] k = "a" -> <<p.x - 1, p.y>> [] k = "d" -> <<p.x + 1, p.y>>

RicherDest(p, k) == <<p.x + KeyDir(k)[1], p.y + KeyDir(k)[2]>>

\* C6: a movement request whose destination is outside the grid (richer
\* variant: or a wall) changes neither the player's position nor anything
\* else of the game state.
C6_BlockedMoveChangesNothing ==
    [][/\ (variant = "simple" /\ pc = "input" /\ key' \in {"w", "a", "s", "d"}
             /\ SimpleDest(player, key') \notin Cells)
          => UNCHANGED <<player, enemies, bullets, score, game_over,
                         last_spawn_time, last_update_time>>
       /\ (variant = "richer" /\ pc = "input" /\ key' \in MoveKeys
             /\ (RicherDest(player, key') \notin Cells
                   \/ map[RicherDest(player, key')] = "#"))
          => UNCHANGED <<player, enemies, projectiles, game_over, map, last_update>>]_vars

\* richer variant: UP was requested with a wall above the player and a wall
\* below it, so the player did not arrive by this move: the request was blocked
C6_Witness ==
    /\ variant = "richer" /\ pc = "projectiles" /\ key = "UP"
    /\ map[<<player.x, player.y - 1>>] = "#"
    /\ map[<<player.x, player.y + 1>>] = "#"

\* C7: richer variant.  A player shot with ammo = 0 appends no projectile and
\* leaves ammo at 0; ammo is never negative; update_enemies (where enemies
\* shoot) never changes the player's ammo.
C7_NoShotWithoutAmmo ==
    /\ [](variant = "richer" => player.ammo >= 0)
    /\ [][variant = "richer" =>
            /\ (pc = "input" /\ key' \in ShootKeys /\ player.ammo = 0)
                  => (projectiles' = projectiles /\ player'.ammo = 0)
            /\ pc = "enemies" => player'.ammo = player.ammo]_vars

\* a shoot key was handled, the player has no ammo and no projectile exists:
\* the shot was refused
C7_Witness ==
    /\ variant = "richer" /\ pc = "projectiles"
    /\ key \in ShootKeys
    /\ player.ammo = 0
    /\ projectiles = <<>>
    /\ ticks = 2

\* the win prompt's reset step
IsReset == pc = "prompt" /\ pc' = "sleep" /\ key' = "y"

\* C8: richer variant.  Between resets the number of enemies never grows; it
\* changes only in update_projectiles, by one per player projectile consumed
\* by a collision; the win prompt is entered after a render exactly when no
\* enemy is left.
C8_EnemyCountAndWin ==
    [][variant = "richer" =>
         /\ ~IsReset => Len(enemies') <= Len(enemies)
         /\ (pc # "projectiles" /\ ~IsReset) => Len(enemies') = Len(enemies)
         /\ pc = "projectiles" =>
              Len(enemies) - Len(enemies')
                = Count(projectiles,
                        LAMBDA q : /\ ~q.is_enemy
                                   /\ Advance(q, delta_time).x >= 0
                                   /\ Advance(q, delta_time).y >= 0
                                   /\ CellOf(Advance(q, delta_time)) \in Cells
                                   /\ map[CellOf(Advance(q, delta_time))] = ".")
                  - Count(projectiles', LAMBDA q : ~q.is_enemy)
         /\ pc = "render" => (pc' = "win" <=> Len(enemies) = 0)
         /\ pc' = "win" => pc = "render"]_vars

\* the win prompt was entered: both enemies were shot
C8_Witness ==
    variant = "richer" /\ pc = "win" /\ enemies = <<>> /\ ~game_over

\* an enemy or a projectile shares the player's cell
SharesPlayerCell ==
    IF variant = "simple"
      THEN \/ \E i \in 1..Len(enemies) : <<enemies[i].x, enemies[i].y>> = PlayerCell
           \/ \E i \in 1..Len(bullets) : <<bullets[i].x, bullets[i].y>> = PlayerCell
      ELSE \/ \E i \in 1..Len(enemies) : CellOf(enemies[i]) = PlayerCell
           \/ \E i \in 1..Len(projectiles) : CellOf(projectiles[i]) = PlayerCell

\* C9: in both variants, when the player shares its cell with an enemy or a
\* projectile at render time, the frame drawn shows '@' on that cell.
C9_PlayerDrawnLast ==
    [][(pc \in {"draw", "render"} /\ SharesPlayerCell) => screen'[PlayerCell] = "@"]_vars

\* C10: the player and every live enemy are on a cell of the grid; in the
\* richer variant the cell (for an enemy, of the truncated position) is a
\* floor tile.
C10_EntitiesOnGridAndFloor ==
    /\ variant = "simple" =>
         /\ PlayerCell \in Cells
         /\ \A i \in 1..Len(enemies) : <<enemies[i].x, enemies[i].y>> \in Cells
    /\ variant = "richer" =>
         /\ PlayerCell \in Cells /\ map[PlayerCell] = "."
         /\ \A i \in 1..Len(enemies) :
              LET c == <<IntCell(enemies[i].x), IntCell(enemies[i].y)>>
              IN  /\ enemies[i].x >= 0 /\ enemies[i].y >= 0
                  /\ c \in Cells /\ map[c] = "."

\* richer variant, after a movement key was handled and update_enemies ran:
\* an enemy stands at a fractional position, so it has moved
C10_Witness ==
    /\ variant = "richer" /\ pc = "render" /\ key \in MoveKeys
    /\ \E i \in 1..Len(enemies) : enemies[i].x % Scale # 0 \/ enemies[i].y % Scale # 0

\* the nearest integer to d / sqrt(D), for D > 0 and |d| <= sqrt(D): the sign
\* of d when the unit component has magnitude >= 0.5, else 0
NearestUnit(d, D) == IF 4 * d * d >= D THEN (IF d > 0 THEN 1 ELSE -1) ELSE 0

\* C11: simple variant, one call of move_enemies: every enemy that is not on
\* the player's cell moves, in each coordinate, by the nearest-integer rounding
\* of the unit displacement toward the player, in all four quadrants.
C11_EnemyStepIsRoundedUnitVector ==
    [][(variant = "simple" /\ pc = "move") =>
        \A i \in 1..Len(enemies) :
          LET dx == player.x - enemies[i].x
              dy == player.y - enemies[i].y
              D  == dx * dx + dy * dy
          IN  D # 0 => /\ enemies'[i].x = enemies[i].x + NearestUnit(dx, D)
                       /\ enemies'[i].y = enemies[i].y + NearestUnit(dy, D)]_vars

\* C12: GameOver is terminal in both variants: once game_over is true it stays
\* true, and from the loop top on (where the flag is tested) the player, the
\* enemies and the projectiles are never updated again.
C12_GameOverIsTerminal ==
    [][/\ game_over => game_over'
       /\ (game_over /\ pc \in {"loop", "done"}) =>
             /\ pc' = "done"
             /\ UNCHANGED <<player, enemies, projectiles, bullets>>]_vars

\* C13: richer variant, win prompt.  Only y and q leave it.  y gives a freshly
\* constructed game (initial health and ammo, NUM_ENEMIES enemies, no
\* projectiles, game_over false) and goes on to the end-of-tick sleep; q sets
\* game_over and changes nothing else of the game; any other key changes
\* nothing at all.
C13_WinPromptKeys ==
    [][(variant = "richer" /\ pc = "prompt") =>
        /\ pc' # "prompt" => key' \in {"y", "q"} /\ pc' = "sleep"
        /\ (pc' # "prompt" /\ key' = "y") =>
              /\ player'.health = InitialHealth
              /\ player'.ammo = InitialAmmo
              /\ Len(enemies') = NUM_ENEMIES
              /\ projectiles' = <<>>
              /\ ~game_over'
              /\ [map |-> map', player |-> player', enemies |-> enemies']
                    \in Constructions(now)
        /\ (pc' # "prompt" /\ key' = "q") =>
              /\ game_over'
              /\ UNCHANGED <<map, player, enemies, projectiles>>
        /\ pc' = "prompt" => UNCHANGED vars]_vars

\* y was pressed at the win prompt of a game whose enemies were all killed:
\* the new game is there and game_over is false
C13_Witness ==
    /\ variant = "richer" /\ pc = "sleep" /\ key = "y"
    /\ ~game_over /\ ticks > 0
    /\ player.health = InitialHealth /\ Len(enemies) = NUM_ENEMIES

\* C14: richer variant, ammo accounting within one game.  The game starts with
\* the initial ammo; handle_input takes exactly 1 for each player projectile
\* it creates; update_projectiles adds exactly 2 for each enemy it removes; no
\* other step of the game changes ammo.  Hence in every state
\* ammo = initial - shots fired + 2 * enemies killed.
C14_AmmoAccounting ==
    /\ variant = "richer" => player.ammo = InitialAmmo
    /\ [][variant = "richer" =>
            /\ pc = "input" =>
                 /\ Len(projectiles') \in {Len(projectiles), Len(projectiles) + 1}
                 /\ player'.ammo = player.ammo - (Len(projectiles') - Len(projectiles))
                 /\ enemies' = enemies
            /\ pc = "projectiles" =>
                 /\ Len(enemies') <= Len(enemies)
                 /\ player'.ammo = player.ammo + 2 * (Len(enemies) - Len(enemies'))
                 /\ \A i \in 1..Len(projectiles') : projectiles'[i] \in
                       {Advance(projectiles[j], delta_time) : j \in 1..Len(projectiles)}
            /\ pc \in {"loop", "enemies", "render", "win", "sleep"} =>
                 /\ player'.ammo = player.ammo
                 /\ enemies' # enemies => Len(enemies') = Len(enemies)
                 /\ \A i \in 1..Len(projectiles') :
                       ~projectiles'[i].is_enemy => projectiles'[i] \in
                           {projectiles[j] : j \in 1..Len(projectiles)}]_vars

\* second tick: the first shot has killed an enemy and a second shot has been
\* fired, so ammo = initial - 2 + 2
C14_Witness ==
    /\ variant = "richer" /\ pc = "projectiles" /\ ticks = 2
    /\ key \in ShootKeys
    /\ Len(enemies) = NUM_ENEMIES - 1
    /\ \E i \in 1..Len(projectiles) : ~projectiles[i].is_enemy
    /\ player.ammo = InitialAmmo - 2 + KillAmmo

\* C15: simple variant: once a tick's updates are done (and until the next
\* tick's input), an enemy on the player's cell implies game_over, however the
\* two came to share the cell.
C15_OverlapEndsGame ==
    (variant = "simple" /\ pc \in {"draw", "sleep", "loop"}) =>
        ((\E i \in 1..Len(enemies) :
             enemies[i].x = player.x /\ enemies[i].y = player.y) => game_over)

\* the tick's only enemy was spawned in this tick on the border cell on which
\* the player stands, and the tick's updates are done
C15_Witness ==
    /\ variant = "simple" /\ pc = "draw"
    /\ Len(enemies) = 1 /\ last_spawn_time = current_time
    /\ PlayerCell \in BorderPoints
    /\ enemies[1].x = player.x /\ enemies[1].y = player.y
    /\ game_over

\* C16: simple variant spawning.  Only spawn_enemy adds enemies, at most one
\* per tick; last_spawn_time is the clock value of the latest spawn (of the
\* construction before the first), and a spawn happens only when at least one
\* second has passed since then; the new enemy stands on a border cell of the
\* grid.
C16_SpawnOncePerSecondOnBorder ==
    [][variant = "simple" =>
        /\ pc # "spawn" => Len(enemies') <= Len(enemies) /\ last_spawn_time' = last_spawn_time
        /\ pc = "spawn" =>
             \/ enemies' = enemies /\ last_spawn_time' = last_spawn_time
             \/ /\ Len(enemies') = Len(enemies) + 1
                /\ SubSeq(enemies', 1, Len(enemies)) = enemies
                /\ now - last_spawn_time >= TicksPerSecond
                /\ last_spawn_time' = now
                /\ LET e == enemies'[Len(enemies')]
                   IN  /\ 0 <= e.x /\ e.x < MAP_WIDTH /\ 0 <= e.y /\ e.y < MAP_HEIGHT
                       /\ e.x \in {0, MAP_WIDTH - 1} \/ e.y \in {0, MAP_HEIGHT - 1}]_vars

\* the second enemy has just been spawned, two seconds after the construction
C16_Witness ==
    /\ variant = "simple" /\ pc = "move"
    /\ Len(enemies) = 2 /\ last_spawn_time = now
    /\ now >= 2 * TicksPerSecond

\* C17: richer variant construction.  Every entity spawn_entity returns stands
\* on an interior floor tile; the generated map always has an interior floor
\* tile; and under fair random draws the construction completes, so every
\* rejection-sampling loop terminates.
C17_SpawnOnFloorAndTerminates ==
    /\ [](pc \in {"spawn_enemies", "constructed"} =>
            /\ <<player.x, player.y>> \in GenInterior
            /\ map[<<player.x, player.y>>] = "."
            /\ \A i \in 1..Len(enemies) :
                 /\ enemies[i].x % Scale = 0 /\ enemies[i].y % Scale = 0
                 /\ <<enemies[i].x \div Scale, enemies[i].y \div Scale>> \in GenInterior
                 /\ map[<<enemies[i].x \div Scale, enemies[i].y \div Scale>>] = ".")
    /\ [](pc \in {"spawn_player", "spawn_enemies", "constructed"} =>
            /\ \E c \in GenInterior : map[c] = "."
            /\ Cardinality({c \in GenInterior : map[c] = "#"})
                  <= (GenWidth * GenHeight) \div 30)
    /\ <>(pc = "constructed" /\ Len(enemies) = NUM_ENEMIES)

\* the construction is complete on a map with a random interior wall, and
\* spawn_entity has rejected at least one draw on the way
C17_Witness ==
    /\ pc = "constructed" /\ key = "rejected"
    /\ Len(enemies) = NUM_ENEMIES
    /\ \E c \in GenInterior : map[c] = "#"

\* C18: richer variant, enemy shooting.  Every shoot_delay is at least one
\* second.  In update_enemies an enemy whose timer changes has fired: at least
\* its shoot_delay had passed since its last shot, its timer is now the
\* current time, and exactly one projectile per such enemy is appended; the
\* timer and delay of every other enemy stay as they were.  No other step
\* adds an enemy projectile or touches a timer.
C18_EnemyShotTimers ==
    /\ [](variant = "richer" =>
            \A i \in 1..Len(enemies) : enemies[i].shoot_delay >= TicksPerSecond)
    /\ [][variant = "richer" =>
            /\ pc = "enemies" =>
                 LET fired == {i \in 1..Len(enemies) :
                                 enemies'[i].last_shot_time # enemies[i].last_shot_time}
                 IN  /\ Len(enemies') = Len(enemies)
                     /\ Len(projectiles') = Len(projectiles) + Cardinality(fired)
                     /\ SubSeq(projectiles', 1, Len(projectiles)) = projectiles
                     /\ \A k \in (Len(projectiles) + 1)..Len(projectiles') :
                          /\ projectiles'[k].is_enemy
                          /\ \E i \in fired : /\ projectiles'[k].x = enemies'[i].x
                                              /\ projectiles'[k].y = enemies'[i].y
                     /\ \A i \in fired :
                          /\ now - enemies[i].last_shot_time >= enemies[i].shoot_delay
                          /\ enemies'[i].last_shot_time = now
                     /\ \A i \in (1..Len(enemies)) \ fired :
                          enemies'[i].shoot_delay = enemies[i].shoot_delay
            /\ pc \in {"loop", "input", "projectiles", "render", "win", "sleep"} =>
                 /\ Cardinality({k \in 1..Len(projectiles') : projectiles'[k].is_enemy})
                       <= Cardinality({k \in 1..Len(projectiles) : projectiles[k].is_enemy})
                 /\ \A i \in 1..Len(enemies') : \E j \in 1..Len(enemies) :
                       /\ enemies'[i].last_shot_time = enemies[j].last_shot_time
                       /\ enemies'[i].shoot_delay = enemies[j].shoot_delay]_vars

\* after update_enemies the first enemy has fired and the second has not: its
\* timer still holds the construction time
C18_Witness ==
    /\ variant = "richer" /\ pc = "render" /\ now > 0
    /\ Len(enemies) = 2
    /\ enemies[1].last_shot_time = now
    /\ enemies[2].last_shot_time = 0
    /\ Cardinality({k \in 1..Len(projectiles) : projectiles[k].is_enemy}) = 1

\* C19: simple variant: in every state no two bullets of the list are equal by
\* value, and after each move inside update_bullets the list still holds no
\* two equal bullets, so each bullets.remove(bullet) drops the bullet it was
\* given.
C19_BulletsDistinctByValue ==
    variant = "simple" =>
        /\ \A i, j \in 1..Len(bullets) : bullets[i] = bullets[j] => i = j
        /\ pc = "bullets" =>
              UpdateBullets(1, bullets, bullets, [j \in 1..Len(bullets) |-> j],
                            enemies, score).distinct

\* before update_bullets: two bullets fly in the same direction on one line,
\* the newer one on the cell right behind the older one
C19_Witness ==
    /\ variant = "simple" /\ pc = "bullets" /\ Len(bullets) = 2
    /\ bullets[1].dx = bullets[2].dx /\ bullets[1].dy = bullets[2].dy
    /\ bullets[1].x = bullets[2].x + bullets[2].dx
    /\ bullets[1].y = bullets[2].y + bullets[2].dy
    /\ InGrid(bullets[1].x + bullets[1].dx, bullets[1].y + bullets[1].dy)

\* C20: simple variant: when in move_enemies an enemy steps onto the cell of a
\* bullet, the collision is resolved in the same tick: the update_bullets that
\* follows removes an enemy and a bullet and adds 10 to the score, so the two
\* do not pass through each other.
C20_NoPassThrough ==
    [][(variant = "simple" /\ pc = "move") =>
        ((\E i \in 1..Len(enemies), j \in 1..Len(bullets) :
             /\ ~(enemies[i].x = bullets[j].x /\ enemies[i].y = bullets[j].y)
             /\ enemies'[i].x = bullets[j].x /\ enemies'[i].y = bullets[j].y)
         => LET after == UpdateBullets(1, bullets', bullets',
                                       [j \in 1..Len(bullets') |-> j], enemies', score')
            IN  /\ after.score >= score + 10
                /\ Len(after.enemies) < Len(enemies)
                /\ Len(after.bullets) < Len(bullets))]_vars

====
